---- MODULE Spec2Model ----
(***************************************************************************)
(* Model of typst's Source (crates/typst/src/syntax/source.rs): a source   *)
(* file held as text, a line table and a syntax tree behind a shared,      *)
(* copy-on-write representation.                                           *)
(*                                                                         *)
(* A text is a sequence of Unicode scalar values; byte and UTF-16 offsets  *)
(* are computed from the encoded width of each scalar, as the code does.   *)
(***************************************************************************)
EXTENDS Integers, Sequences, FiniteSets, TLC

(***************************************************************************)
(* Bounds of the model.                                                    *)
(***************************************************************************)
\* longest text, in scalar values, a source may hold
MaxLen == 2
\* longest text passed to one call of replace or edit, in scalar values
MaxInput == 1
\* longest text, in scalar values, of the sources built one after another
\* by SpecBuild
MaxBuildLen == 4
\* deepest nesting of the content laid out by SpecMath
MaxDepth == 2

(***************************************************************************)
(* Characters.                                                             *)
(***************************************************************************)
LF == 10
CR == 13
LatinA == 97
Heart == 128155
Chars == {LF, CR, LatinA, Heart}

Texts(n) == UNION {[1..k -> Chars] : k \in 0..n}
InitTexts == Texts(MaxLen)
Inputs == Texts(MaxInput)
\* the texts a source may hold while a clone of it is alive: what
\* Arc::make_mut does is independent of what the text holds
CowTexts == Texts(1)

\* usize::MAX, the value 0 - 1 wraps to when overflow checks are off.  It is
\* only ever used as an index that lies beyond every table and every text.
UsizeMax == 2147483647

char_len_utf8(c) == IF c < 128 THEN 1 ELSE IF c < 2048 THEN 2 ELSE IF c < 65536 THEN 3 ELSE 4
char_len_utf16(c) == IF c < 65536 THEN 1 ELSE 2

is_newline(c) == c = LF \/ c = CR

\* bytes of the first i scalars of t
RECURSIVE ByteOf(_, _)
ByteOf(t, i) == IF i = 0 THEN 0 ELSE char_len_utf8(t[i]) + ByteOf(t, i - 1)

\* str::len
ByteLen(t) == ByteOf(t, Len(t))

\* StrExt::len_utf16
RECURSIVE Utf16Of(_, _)
Utf16Of(t, i) == IF i = 0 THEN 0 ELSE char_len_utf16(t[i]) + Utf16Of(t, i - 1)
StrLenUtf16(t) == Utf16Of(t, Len(t))

\* walk the scalars from the i-th boundary, at byte offset off, towards byte
\* offset b: the number of scalars before b, or -1 when b falls inside a
\* scalar or beyond the text
RECURSIVE ScanTo(_, _, _, _)
ScanTo(t, i, off, b) ==
    IF off = b THEN i
    ELSE IF off > b \/ i >= Len(t) THEN -1
    ELSE ScanTo(t, i + 1, off + char_len_utf8(t[i + 1]), b)

\* str::is_char_boundary
IsCharBoundary(t, b) == ScanTo(t, 0, 0, b) >= 0

\* number of scalars before byte offset b, a character boundary of t
CharsBefore(t, b) == ScanTo(t, 0, 0, b)

(***************************************************************************)
(* Option values: Some(v), None, and the panic that ends the call.         *)
(***************************************************************************)
Some(v) == [tag |-> "Some", val |-> v]
None == [tag |-> "None", val |-> 0]
Panic == [tag |-> "Panic", val |-> 0]
IsSome(o) == o.tag = "Some"

\* str::get(a..b): the slice, or None when a > b, b > len or either offset
\* is not on a character boundary
StrGet(t, a, b) ==
    IF a <= b /\ IsCharBoundary(t, a) /\ IsCharBoundary(t, b)
    THEN Some(SubSeq(t, CharsBefore(t, a) + 1, CharsBefore(t, b)))
    ELSE None

\* Vec::get(i) on a 0-based index
VecGet(v, i) == IF i < Len(v) THEN Some(v[i + 1]) ELSE None

(***************************************************************************)
(* The line table.                                                         *)
(***************************************************************************)
Line(b, u) == [byte_idx |-> b, utf16_idx |-> u]

\* Scanner::eat_until with the closure of lines_from: the closure is called
\* on every scalar up to and including the first newline, adding its UTF-16
\* width; the newline itself is not eaten.  cur counts the scalars eaten.
RECURSIVE EatUntilNewline(_, _, _)
EatUntilNewline(t, cur, u) ==
    IF cur >= Len(t) THEN [cursor |-> cur, utf16_idx |-> u]
    ELSE IF is_newline(t[cur + 1])
         THEN [cursor |-> cur, utf16_idx |-> u + char_len_utf16(t[cur + 1])]
         ELSE EatUntilNewline(t, cur + 1, u + char_len_utf16(t[cur + 1]))

\* the iterator of lines_from, from scanner position cur on
RECURSIVE LinesIter(_, _, _, _)
LinesIter(byte_offset, t, cur, u) ==
    LET e == EatUntilNewline(t, cur, u) IN
    IF e.cursor >= Len(t) THEN <<>>
    ELSE LET crlf == t[e.cursor + 1] = CR /\ e.cursor + 2 <= Len(t)
                       /\ t[e.cursor + 2] = LF
             cur2 == IF crlf THEN e.cursor + 2 ELSE e.cursor + 1
             u2 == IF crlf THEN e.utf16_idx + 1 ELSE e.utf16_idx
         IN <<Line(byte_offset + ByteOf(t, cur2), u2)>>
              \o LinesIter(byte_offset, t, cur2, u2)

\* lines_from as it would be without the eat_if('\n') after a '\r': every
\* newline scalar ends a line on its own
RECURSIVE LinesIterSplittingCrLf(_, _, _, _)
LinesIterSplittingCrLf(byte_offset, t, cur, u) ==
    LET e == EatUntilNewline(t, cur, u) IN
    IF e.cursor >= Len(t) THEN <<>>
    ELSE <<Line(byte_offset + ByteOf(t, e.cursor + 1), e.utf16_idx)>>
           \o LinesIterSplittingCrLf(byte_offset, t, e.cursor + 1, e.utf16_idx)

lines_from_splitting_crlf(byte_offset, utf16_offset, t) ==
    LinesIterSplittingCrLf(byte_offset, t, 0, utf16_offset)

lines_from(byte_offset, utf16_offset, t) == LinesIter(byte_offset, t, 0, utf16_offset)

\* lines as it would be without the record of the first line
lines_without_first(t) == lines_from(0, 0, t)

lines(t) == <<Line(0, 0)>> \o lines_from(0, 0, t)

(***************************************************************************)
(* The syntax tree.  parse, numberize, synthesize and reparse live outside *)
(* source.rs; a tree is known here by the text it covers and by how its    *)
(* spans were assigned.                                                    *)
(***************************************************************************)
DetachedId == 0
FileIds == {1}

\* the root parse returns is a markup node, whatever the text
parse(t) == [kind |-> "Markup", text |-> t, spans |-> "unnumbered", id |-> DetachedId]
numberize(root, id) == [root EXCEPT !.spans = "numbered", !.id = id]
synthesize(root) == [root EXCEPT !.spans = "synthetic"]

\* reparse(root, text, replaced, replacement_len): either patches the tree
\* for the new text, or falls back to a full parse of it
reparse(root, t, patched) ==
    IF patched THEN [root EXCEPT !.text = t, !.spans = "patched"]
    ELSE numberize(parse(t), root.id)

(***************************************************************************)
(* Repr and its constructors.                                              *)
(***************************************************************************)
SourceNew(id, t) ==
    [id |-> id, text |-> t, root |-> numberize(parse(t), id), lines |-> lines(t)]

SourceSynthesized(t) ==
    [id |-> DetachedId, text |-> t, root |-> synthesize(parse(t)), lines |-> lines(t)]

\* what a slot of the heap holds while no handle refers to it
FreeRepr == [id |-> DetachedId, text |-> <<>>, root |-> parse(<<>>), lines |-> <<>>]

\* Source::root
SourceRoot(r) == r.root

\* SourceResult: Ok(v) or Err(e)
Ok(v) == [tag |-> "Ok", val |-> v]
Err(e) == [tag |-> "Err", val |-> e]

\* SyntaxNode::cast::<Markup>
cast(node) == IF node.kind = "Markup" THEN Some(node) ELSE None

\* ast as it would be if it did not look at the errors of the tree
ast_ignoring_errors(r, errors) ==
    LET markup == cast(SourceRoot(r)) IN
    IF IsSome(markup) THEN Ok(markup.val) ELSE Panic

\* Source::ast; errors is what SyntaxNode::errors finds in the tree
ast(r, errors) ==
    IF errors = <<>>
    THEN LET markup == cast(SourceRoot(r)) IN
         IF IsSome(markup) THEN Ok(markup.val) ELSE Panic
    ELSE Err(errors)

\* Source::id
SourceId(r) == r.id

len_bytes(r) == ByteLen(r.text)
len_lines(r) == Len(r.lines)

(***************************************************************************)
(* Position queries.  oc tells whether the build checks integer overflow   *)
(* (debug) or wraps (release).                                             *)
(***************************************************************************)
\* slice::binary_search_by_key on a table whose keys strictly increase:
\* Ok(i) for the record holding the key, else Err(i) with i the number of
\* records below it
binary_search_by_key(keys, k) ==
    IF \E i \in 1..Len(keys) : keys[i] = k
    THEN [ok |-> TRUE, idx |-> (CHOOSE i \in 1..Len(keys) : keys[i] = k) - 1]
    ELSE [ok |-> FALSE, idx |-> Cardinality({i \in 1..Len(keys) : keys[i] < k})]

\* match .. { Ok(i) => i, Err(i) => i - 1 }
SearchIndex(bs, oc) ==
    IF bs.ok THEN Some(bs.idx)
    ELSE IF bs.idx > 0 THEN Some(bs.idx - 1)
    ELSE IF oc THEN Panic ELSE Some(UsizeMax)

ByteKeys(r) == [i \in 1..Len(r.lines) |-> r.lines[i].byte_idx]
Utf16Keys(r) == [i \in 1..Len(r.lines) |-> r.lines[i].utf16_idx]

byte_to_line(r, byte_idx, oc) ==
    IF byte_idx <= ByteLen(r.text)
    THEN SearchIndex(binary_search_by_key(ByteKeys(r), byte_idx), oc)
    ELSE None

\* byte_to_utf16 as it would be if it took the bytes of the line's head for
\* its UTF-16 units
byte_to_utf16_counting_bytes(r, byte_idx, oc) ==
    LET line_idx == byte_to_line(r, byte_idx, oc) IN
    IF ~IsSome(line_idx) THEN line_idx
    ELSE LET line == VecGet(r.lines, line_idx.val) IN
         IF ~IsSome(line) THEN None
         ELSE LET head == StrGet(r.text, line.val.byte_idx, byte_idx) IN
              IF ~IsSome(head) THEN None
              ELSE Some(line.val.utf16_idx + ByteLen(head.val))

byte_to_utf16(r, byte_idx, oc) ==
    LET line_idx == byte_to_line(r, byte_idx, oc) IN
    IF ~IsSome(line_idx) THEN line_idx
    ELSE LET line == VecGet(r.lines, line_idx.val) IN
         IF ~IsSome(line) THEN None
         ELSE LET head == StrGet(r.text, line.val.byte_idx, byte_idx) IN
              IF ~IsSome(head) THEN None
              ELSE Some(line.val.utf16_idx + StrLenUtf16(head.val))

line_to_byte(r, line_idx) ==
    LET line == VecGet(r.lines, line_idx) IN
    IF IsSome(line) THEN Some(line.val.byte_idx) ELSE None

line_to_range(r, line_idx) ==
    LET start == line_to_byte(r, line_idx) IN
    IF ~IsSome(start) THEN None
    ELSE LET next == line_to_byte(r, line_idx + 1) IN
         Some(<<start.val, IF IsSome(next) THEN next.val ELSE ByteLen(r.text)>>)

byte_to_column(r, byte_idx, oc) ==
    LET line == byte_to_line(r, byte_idx, oc) IN
    IF ~IsSome(line) THEN line
    ELSE LET start == line_to_byte(r, line.val) IN
         IF ~IsSome(start) THEN None
         ELSE LET head == StrGet(r.text, start.val, byte_idx) IN
              IF ~IsSome(head) THEN None ELSE Some(Len(head.val))

\* the char_indices loop of utf16_to_byte over the scalars after the line
\* start; i counts the scalars passed, k the UTF-16 units up to there
RECURSIVE Utf16Scan(_, _, _, _, _)
Utf16Scan(t, from, i, k, utf16_idx) ==
    IF from + i >= Len(t)
    THEN (IF k = utf16_idx THEN Some(ByteLen(t)) ELSE None)
    ELSE IF k >= utf16_idx THEN Some(ByteOf(t, from + i))
    ELSE Utf16Scan(t, from, i + 1, k + char_len_utf16(t[from + i + 1]), utf16_idx)

utf16_to_byte(r, utf16_idx, oc) ==
    LET idx == SearchIndex(binary_search_by_key(Utf16Keys(r), utf16_idx), oc) IN
    IF ~IsSome(idx) THEN idx
    ELSE LET line == VecGet(r.lines, idx.val) IN
         IF ~IsSome(line) THEN None
         ELSE IF ~IsCharBoundary(r.text, line.val.byte_idx) THEN Panic
         ELSE Utf16Scan(r.text, CharsBefore(r.text, line.val.byte_idx), 0,
                        line.val.utf16_idx, utf16_idx)

line_column_to_byte(r, line_idx, column_idx) ==
    LET range == line_to_range(r, line_idx) IN
    IF ~IsSome(range) THEN None
    ELSE LET line == StrGet(r.text, range.val[1], range.val[2]) IN
         IF ~IsSome(line) THEN None
         ELSE LET eaten == IF column_idx < Len(line.val) THEN column_idx
                           ELSE Len(line.val)
              IN Some(range.val[1] + ByteLen(SubSeq(line.val, 1, eaten)))

len_utf16(r) ==
    IF r.lines = <<>> THEN Panic
    ELSE LET last_line == r.lines[Len(r.lines)] IN
         IF ~IsCharBoundary(r.text, last_line.byte_idx) THEN Panic
         ELSE Some(last_line.utf16_idx
                   + StrLenUtf16(SubSeq(r.text,
                         CharsBefore(r.text, last_line.byte_idx) + 1, Len(r.text))))

(***************************************************************************)
(* Source::replace and Source::edit on a Repr the handle holds alone.      *)
(***************************************************************************)
\* replace as it would be if it kept the line table of the old text
replace_keeping_lines(r, t) ==
    [r EXCEPT !.text = t, !.root = numberize(parse(t), r.id)]

\* replace as it would be if it gave the source the detached id
replace_detaching(r, t) ==
    [r EXCEPT !.id = DetachedId, !.text = t, !.lines = lines(t),
              !.root = numberize(parse(t), DetachedId)]

replace(r, t) ==
    [r EXCEPT !.text = t, !.lines = lines(t), !.root = numberize(parse(t), r.id)]

\* replace_range as it would be if it clamped the range to the text instead
\* of asserting that it lies within it
replace_range_clamping(t, s, e, w) ==
    LET s2 == IF s > ByteLen(t) THEN ByteLen(t) ELSE s
        e1 == IF e > ByteLen(t) THEN ByteLen(t) ELSE e
        e2 == IF e1 < s2 THEN s2 ELSE e1
    IN  IF IsCharBoundary(t, s2) /\ IsCharBoundary(t, e2)
        THEN Some(SubSeq(t, 1, CharsBefore(t, s2)) \o w
                  \o SubSeq(t, CharsBefore(t, e2) + 1, Len(t)))
        ELSE Panic

\* String::replace_range: asserts that both ends are character boundaries
\* of the text and that start <= end before it touches the text
replace_range(t, s, e, w) ==
    IF IsCharBoundary(t, s) /\ IsCharBoundary(t, e) /\ s <= e
    THEN Some(SubSeq(t, 1, CharsBefore(t, s)) \o w
              \o SubSeq(t, CharsBefore(t, e) + 1, Len(t)))
    ELSE Panic

truncate(v, n) == IF n < Len(v) THEN SubSeq(v, 1, n) ELSE v
pop(v) == IF v = <<>> THEN v ELSE SubSeq(v, 1, Len(v) - 1)
ends_with(t, c) == t # <<>> /\ t[Len(t)] = c
starts_with(t, c) == t # <<>> /\ t[1] = c

\* text[..start_byte] ends with '\r' and the replacement starts with '\n'
Adjoining(t2, start_byte, w) ==
    ends_with(SubSeq(t2, 1, CharsBefore(t2, start_byte)), CR) /\ starts_with(w, LF)

\* where Source::edit panics, if it does: "unwrap" at the unwraps of
\* byte_to_utf16 and byte_to_line, before Arc::make_mut; "replace_range"
\* inside String::replace_range, after Arc::make_mut and before the text is
\* touched; "none" when it runs to its end.  The replacement plays no part.
EditOutcome(r, s, e, oc) ==
    IF ~IsSome(byte_to_utf16(r, s, oc)) \/ ~IsSome(byte_to_line(r, s, oc))
    THEN "unwrap"
    ELSE IF ~IsSome(replace_range(r.text, s, e, <<>>)) THEN "replace_range"
    ELSE "none"

\* the Repr that Source::edit leaves when it runs to its end
edit(r, s, e, w, oc, patched) ==
    LET start_utf16 == byte_to_utf16(r, s, oc).val
        line == byte_to_line(r, s, oc).val
        t2 == replace_range(r.text, s, e, w).val
        kept == truncate(r.lines, line + 1)
        kept2 == IF Adjoining(t2, s, w) THEN pop(kept) ELSE kept
        tail == SubSeq(t2, CharsBefore(t2, s) + 1, Len(t2))
    IN  [r EXCEPT !.text = t2,
                  !.lines = kept2 \o lines_from(s, start_utf16, tail),
                  !.root = reparse(r.root, t2, patched)]

(***************************************************************************)
(* Math layout (crates/typst-library/src/math/mod.rs): layout_math on      *)
(* content.  A style map is a sequence of style entries, the later entry   *)
(* the stronger; Styles, StyleChain and the TextElem properties live       *)
(* outside mod.rs.                                                         *)
(***************************************************************************)
Style(prop, val) == [prop |-> prop, val |-> val]

\* Styles::apply(outer): the outer styles go below the map's own
apply(self, outer) == outer \o self

\* StyleChain::chain: the entries of the chain with those of the map on top
chain(outer, local) == outer \o local

\* the strongest entry of a chain for a property
RECURSIVE Resolve(_, _)
Resolve(styles, prop) ==
    IF styles = <<>> THEN "default"
    ELSE IF styles[Len(styles)].prop = prop THEN styles[Len(styles)].val
    ELSE Resolve(SubSeq(styles, 1, Len(styles) - 1), prop)

\* TextElem::size_in and TextElem::font_in
size_in(styles) == Resolve(styles, "size")
font_in(styles) == Resolve(styles, "font")

\* MathContext::styles: self.outer.chain(&self.local)
CtxStyles(ctx) == chain(ctx.outer, ctx.local)

\* MathContext::new: no local styles, the size of the outer styles
MathContextNew(outer) ==
    [outer |-> outer, local |-> <<>>, size |-> size_in(outer), fragments |-> <<>>]

\* MathContext::push
CtxPush(ctx, fragment) == [ctx EXCEPT !.fragments = Append(@, fragment)]

\* line 434: the styled content asks for another font than the context has
OtherFont(ctx, styles) ==
    font_in(chain(CtxStyles(ctx), styles)) # font_in(CtxStyles(ctx))

\* lines 442-445: the styled map takes the place of the local map, the
\* previous local map is applied below it, and the size is resolved anew
StyledEnter(ctx, styles) ==
    LET local == apply(styles, ctx.local) IN
    [ctx EXCEPT !.local = local, !.size = size_in(chain(ctx.outer, local))]

\* lines 447-448 as they would be without `ctx.size = prev_size`
StyledExitKeepingSize(ctx, prev_map, prev_size) ==
    [ctx EXCEPT !.local = prev_map]

\* lines 447-448: size and local map are put back
StyledExit(ctx, prev_map, prev_size) ==
    [ctx EXCEPT !.size = prev_size, !.local = prev_map]

\* content: text, text whose layout fails, styled content and sequences
Text == [kind |-> "text"]
BadText == [kind |-> "bad_text"]
Styled(styles, elem) == [kind |-> "styled", styles |-> styles, elem |-> elem]
Sequence(children) == [kind |-> "sequence", children |-> children]

\* the frame of one call of layout_math: the content it was called on, where
\* it stands, its locals prev_map and prev_size, the child of a sequence it
\* has reached, and the local map and size of the context when it was called
Frame(content, ctx) ==
    [content |-> content, pc |-> "call", prev_map |-> <<>>,
     prev_size |-> "default", child |-> 0,
     at_call |-> [local |-> ctx.local, size |-> ctx.size]]

\* math, while no equation is laid out
NoMath ==
    [ctx |-> MathContextNew(<<>>), stack |-> <<>>, ret |-> "none", root |-> Text]

(***************************************************************************)
(* The program: handle A is created by Source::new or Source::synthesized, *)
(* handle B is a clone of A.  Each handle points to a slot of the heap     *)
(* (its Arc); a slot no handle points to is free.                          *)
(***************************************************************************)
VARIABLES heap, src, status, last, run, math

vars == <<heap, src, status, last, run, math>>

Handles == {"A", "B"}
NoSlot == 0
Slots == {1, 2}

Alive(h) == src[h] # NoSlot
View(h) == heap[src[h]]
Shared(h) == \E g \in Handles \ {h} : src[g] = src[h]

\* the texts the next mutation may leave
Allowed == IF \A h \in Handles : Alive(h) THEN CowTexts ELSE InitTexts

\* make_mut as it would be if it handed out the shared Repr without copying
make_mut_in_place(h) == [slot |-> src[h], heap |-> heap, src |-> src]

\* Arc::make_mut: the handle's own slot when it holds it alone, else a free
\* slot that receives a copy of the Repr
make_mut(h) ==
    IF Shared(h)
    THEN LET new == CHOOSE s \in Slots : \A g \in Handles : src[g] # s
         IN [slot |-> new,
             heap |-> [heap EXCEPT ![new] = heap[src[h]]],
             src |-> [src EXCEPT ![h] = new]]
    ELSE [slot |-> src[h], heap |-> heap, src |-> src]

OutOfBounds(t, s, e) == s > ByteLen(t) \/ e > ByteLen(t) \/ s > e

Call(op, h, oob) == [op |-> op, h |-> h, oob |-> oob]

\* run, while no call of Source::edit is being followed statement by
\* statement (see SpecSteps)
Idle ==
    [pc |-> "idle", replace |-> <<0, 0>>, with |-> <<>>, start_utf16 |-> 0,
     line |-> 0, prev |-> FreeRepr, calls |-> <<>>, ret |-> None]

Init ==
    /\ \E t \in InitTexts :
         \/ \E id \in FileIds :
              /\ heap = [s \in Slots |-> IF s = 1 THEN SourceNew(id, t) ELSE FreeRepr]
              /\ last = Call("new", "A", FALSE)
         \/ /\ heap = [s \in Slots |-> IF s = 1 THEN SourceSynthesized(t) ELSE FreeRepr]
            /\ last = Call("synthesized", "A", FALSE)
    /\ src = [h \in Handles |-> IF h = "A" THEN 1 ELSE NoSlot]
    /\ status = "ok"
    /\ run = Idle
    /\ math = NoMath

\* #[derive(Clone)] on Source: B becomes a second handle to A's Repr
Clone ==
    /\ status = "ok"
    /\ ~Alive("B")
    /\ View("A").text \in CowTexts
    /\ src' = [src EXCEPT !["B"] = src["A"]]
    /\ last' = Call("clone", "B", FALSE)
    /\ UNCHANGED <<heap, status, run, math>>

\* B goes out of scope; its Repr is freed when B was the last handle to it
Drop ==
    /\ status = "ok"
    /\ Alive("B")
    /\ src' = [src EXCEPT !["B"] = NoSlot]
    /\ heap' = IF Shared("B") THEN heap ELSE [heap EXCEPT ![src["B"]] = FreeRepr]
    /\ last' = Call("drop", "B", FALSE)
    /\ UNCHANGED <<status, run, math>>

Replace(h, t) ==
    /\ status = "ok"
    /\ Alive(h)
    /\ LET m == make_mut(h) IN
         /\ heap' = [m.heap EXCEPT ![m.slot] = replace(m.heap[m.slot], t)]
         /\ src' = m.src
    /\ last' = Call("replace", h, FALSE)
    /\ UNCHANGED <<status, run, math>>

\* in both builds an underflow in byte_to_line ends the call at the unwraps
\* (see EditOutcome), so the outcome is taken from the checked build
Edit(h, s, e, w, patched) ==
    /\ status = "ok"
    /\ Alive(h)
    /\ LET out == EditOutcome(View(h), s, e, TRUE)
           m == make_mut(h)
       IN  \/ /\ out = "unwrap"
              /\ status' = "panicked"
              /\ UNCHANGED <<heap, src>>
           \/ /\ out = "replace_range"
              /\ status' = "panicked"
              /\ heap' = m.heap
              /\ src' = m.src
           \/ /\ out = "none"
              /\ replace_range(View(h).text, s, e, w).val \in Allowed
              /\ status' = "ok"
              /\ heap' = [m.heap EXCEPT
                            ![m.slot] = edit(View(h), s, e, w, TRUE, patched)]
              /\ src' = m.src
    /\ last' = Call("edit", h, OutOfBounds(View(h).text, s, e))
    /\ UNCHANGED <<run, math>>

EditOffsets(h) == 0..(ByteLen(View(h).text) + 1)

Next ==
    \/ Clone
    \/ Drop
    \/ \E h \in Handles : \E t \in Inputs \cap Allowed : Replace(h, t)
    \/ \E h \in Handles : Alive(h) /\ \E s, e \in EditOffsets(h) :
         IF EditOutcome(View(h), s, e, TRUE) # "none"
         THEN Edit(h, s, e, <<>>, FALSE)
         ELSE \E w \in Inputs \cap Allowed : \E patched \in BOOLEAN :
                Edit(h, s, e, w, patched)

Spec == Init /\ [][Next]_vars

(***************************************************************************)
(* SpecBuild: one handle whose text is rebuilt from scratch again and      *)
(* again, one scalar longer each time.  It reaches the from-scratch Repr   *)
(* of every text of up to MaxBuildLen scalars.                             *)
(***************************************************************************)
InitBuild ==
    /\ heap = [s \in Slots |-> IF s = 1 THEN SourceNew(1, <<>>) ELSE FreeRepr]
    /\ last = Call("new", "A", FALSE)
    /\ src = [h \in Handles |-> IF h = "A" THEN 1 ELSE NoSlot]
    /\ status = "ok"
    /\ run = Idle
    /\ math = NoMath

NextBuild ==
    \E c \in Chars :
        /\ Len(View("A").text) < MaxBuildLen
        /\ Replace("A", Append(View("A").text, c))

SpecBuild == InitBuild /\ [][NextBuild]_vars

(***************************************************************************)
(* SpecSteps: Source::edit on handle A, which holds its Repr alone,        *)
(* followed statement by statement.  run holds the arguments and locals of *)
(* the call, the Repr the call found, the calls made to the reparser and   *)
(* the value the call returns.                                             *)
(***************************************************************************)
\* the arguments of the call of reparse as they would be if the replacement
\* were passed in place of the new text
ReparseArgsReplacementOnly(r, replace_, with_) ==
    [root |-> r.root, text |-> with_, replaced |-> replace_,
     replacement_len |-> ByteLen(with_)]

\* reparse(root, &inner.text, replace, with.len())
ReparseArgs(r, replace_, with_) ==
    [root |-> r.root, text |-> r.text, replaced |-> replace_,
     replacement_len |-> ByteLen(with_)]

\* the ranges the reparser may report for a patch: they lie on character
\* boundaries of the new text and enclose the replacement
PatchRanges(t, replace_, replacement_len) ==
    {<<a, b>> : a \in {x \in 0..replace_[1] : IsCharBoundary(t, x)},
                b \in {y \in (replace_[1] + replacement_len)..ByteLen(t) :
                         IsCharBoundary(t, y)}}

\* the range the reparser reports after a full parse
WholeRange(t) == <<0, ByteLen(t)>>

\* what a call of the reparser may report
ReparseRanges(args, patched) ==
    IF patched THEN PatchRanges(args.text, args.replaced, args.replacement_len)
    ELSE {WholeRange(args.text)}

\* lines 113-115: the start of the range is turned into a UTF-16 offset and
\* a line before anything is changed
EditCapture(s, e, w) ==
    /\ status = "ok"
    /\ run.pc = "idle"
    /\ LET r == View("A")
           began == [Idle EXCEPT !.replace = <<s, e>>, !.with = w, !.prev = r]
       IN  IF EditOutcome(r, s, e, TRUE) = "unwrap"
           THEN /\ status' = "panicked"
                /\ run' = [began EXCEPT !.pc = "panicked"]
           ELSE /\ EditOutcome(r, s, e, TRUE) = "none"
                      => replace_range(r.text, s, e, w).val \in InitTexts
                /\ status' = "ok"
                /\ run' = [began EXCEPT !.pc = "splice",
                                        !.start_utf16 = byte_to_utf16(r, s, TRUE).val,
                                        !.line = byte_to_line(r, s, TRUE).val]
    /\ last' = Call("edit", "A", OutOfBounds(View("A").text, s, e))
    /\ UNCHANGED <<heap, src, math>>

\* lines 117-120: Arc::make_mut, then String::replace_range
EditSplice ==
    /\ status = "ok"
    /\ run.pc = "splice"
    /\ LET m == make_mut("A")
           t2 == replace_range(View("A").text, run.replace[1], run.replace[2],
                               run.with)
       IN  /\ src' = m.src
           /\ IF IsSome(t2)
              THEN /\ heap' = [m.heap EXCEPT ![m.slot].text = t2.val]
                   /\ run' = [run EXCEPT !.pc = "truncate"]
                   /\ UNCHANGED status
              ELSE /\ heap' = m.heap
                   /\ run' = [run EXCEPT !.pc = "panicked"]
                   /\ status' = "panicked"
    /\ UNCHANGED <<last, math>>

\* line 123: inner.lines.truncate(line + 1)
EditTruncate ==
    /\ status = "ok"
    /\ run.pc = "truncate"
    /\ heap' = [heap EXCEPT ![src["A"]].lines = truncate(@, run.line + 1)]
    /\ run' = [run EXCEPT !.pc = "adjoin"]
    /\ UNCHANGED <<src, status, last, math>>

\* lines 126-128: the pop when '\r' and '\n' come to adjoin
EditAdjoin ==
    /\ status = "ok"
    /\ run.pc = "adjoin"
    /\ heap' = IF Adjoining(View("A").text, run.replace[1], run.with)
               THEN [heap EXCEPT ![src["A"]].lines = pop(@)]
               ELSE heap
    /\ run' = [run EXCEPT !.pc = "extend"]
    /\ UNCHANGED <<src, status, last, math>>

\* lines 131-135: the records of the text from start_byte on are added
EditExtend ==
    /\ status = "ok"
    /\ run.pc = "extend"
    /\ LET t2 == View("A").text
           tail == SubSeq(t2, CharsBefore(t2, run.replace[1]) + 1, Len(t2))
       IN  heap' = [heap EXCEPT ![src["A"]].lines =
                       @ \o lines_from(run.replace[1], run.start_utf16, tail)]
    /\ run' = [run EXCEPT !.pc = "reparse"]
    /\ UNCHANGED <<src, status, last, math>>

\* lines 138-140: the reparser is called on the root; what it reports is the
\* value of the call of edit; the call is recorded with the line table it
\* found
EditReparse(patched, range) ==
    /\ status = "ok"
    /\ run.pc = "reparse"
    /\ LET args == ReparseArgs(View("A"), run.replace, run.with) IN
         /\ range \in ReparseRanges(args, patched)
         /\ heap' = [heap EXCEPT ![src["A"]].root =
                        reparse(args.root, args.text, patched)]
         /\ run' = [run EXCEPT
                      !.pc = "returned",
                      !.calls = Append(@, [args |-> args, patched |-> patched,
                                           reported |-> range,
                                           lines |-> View("A").lines]),
                      !.ret = Some(range)]
    /\ UNCHANGED <<src, status, last, math>>

\* line 141: the call returns to its caller
EditReturn ==
    /\ status = "ok"
    /\ run.pc = "returned"
    /\ run' = Idle
    /\ UNCHANGED <<heap, src, status, last, math>>

\* the replacements of the calls followed statement by statement: what the
\* statements do with a replacement depends on its first scalar and on the
\* line terminators it holds
StepInputs == Texts(1)

InitSteps ==
    /\ \E id \in FileIds : \E t \in InitTexts :
         heap = [s \in Slots |-> IF s = 1 THEN SourceNew(id, t) ELSE FreeRepr]
    /\ last = Call("new", "A", FALSE)
    /\ src = [h \in Handles |-> IF h = "A" THEN 1 ELSE NoSlot]
    /\ status = "ok"
    /\ run = Idle
    /\ math = NoMath

NextSteps ==
    \/ \E s, e \in EditOffsets("A") :
         IF EditOutcome(View("A"), s, e, TRUE) # "none"
         THEN EditCapture(s, e, <<>>)
         ELSE \E w \in StepInputs : EditCapture(s, e, w)
    \/ EditSplice
    \/ EditTruncate
    \/ EditAdjoin
    \/ EditExtend
    \/ \E patched \in BOOLEAN :
         \E range \in ReparseRanges(ReparseArgs(View("A"), run.replace, run.with),
                                    patched) :
           EditReparse(patched, range)
    \/ EditReturn
    \/ run.pc = "idle" /\ \E t \in StepInputs : Replace("A", t)

SpecSteps == InitSteps /\ [][NextSteps]_vars

(***************************************************************************)
(* SpecMath: one call of layout_math on content, with the calls it makes   *)
(* on the content's children.  math.stack holds the frames of the calls in *)
(* progress, math.ret what the call that returned last returned.           *)
(***************************************************************************)
\* the styles around the equation
OuterStyles == <<Style("font", "math"), Style("size", "10pt")>>

\* the style maps of styled content
StyleMaps ==
    {<<Style("size", "12pt")>>, <<Style("size", "14pt")>>,
     <<Style("weight", "bold")>>, <<Style("font", "serif")>>}

RECURSIVE Contents(_)
Contents(d) ==
    IF d = 0 THEN {Text, BadText}
    ELSE LET sub == Contents(d - 1) IN
         {Text, BadText}
           \cup {Styled(m, c) : m \in StyleMaps, c \in sub}
           \cup {Sequence(<<c1, c2>>) : c1 \in sub, c2 \in {Text, BadText}}

RootContents == Contents(MaxDepth)

Top == math.stack[Len(math.stack)]

\* the call on top of the stack returns result and leaves the context c
Return(result, c) ==
    math' = [math EXCEPT !.ctx = c, !.ret = result,
                         !.stack = SubSeq(@, 1, Len(@) - 1)]

\* the call on top of the stack, turned into frame, calls layout_math on
\* content with the context c
CallChild(frame, content, c) ==
    math' = [math EXCEPT !.ctx = c, !.ret = "none",
                         !.stack = SubSeq(@, 1, Len(@) - 1)
                                     \o <<frame, Frame(content, c)>>]

InitMath ==
    /\ heap = [s \in Slots |-> IF s = 1 THEN SourceNew(1, <<>>) ELSE FreeRepr]
    /\ last = Call("new", "A", FALSE)
    /\ src = [h \in Handles |-> IF h = "A" THEN 1 ELSE NoSlot]
    /\ status = "ok"
    /\ run = Idle
    /\ \E root \in RootContents :
         math = [ctx |-> MathContextNew(OuterStyles),
                 stack |-> <<Frame(root, MathContextNew(OuterStyles))>>,
                 ret |-> "none", root |-> root]

\* lines 471-475: text is laid out with the styles and the size of the
\* context and pushed; `?` returns the error of a layout that fails
LayoutText ==
    /\ math.stack # <<>> /\ Top.pc = "call"
    /\ Top.content.kind \in {"text", "bad_text"}
    /\ IF Top.content.kind = "text"
       THEN Return("ok", CtxPush(math.ctx,
                [kind |-> "text", size |-> math.ctx.size,
                 styles |-> CtxStyles(math.ctx)]))
       ELSE Return("err", math.ctx)
    /\ UNCHANGED <<heap, src, status, last, run>>

\* lines 433-440: styled content of another font is laid out as a frame by
\* ctx.layout_content, which may fail: `?` returns its error and nothing is
\* pushed; else the frame is pushed and Ok(()) is returned
LayoutStyledOtherFont ==
    /\ math.stack # <<>> /\ Top.pc = "call"
    /\ Top.content.kind = "styled"
    /\ OtherFont(math.ctx, Top.content.styles)
    /\ \E layout_content_ok \in BOOLEAN :
         IF layout_content_ok
         THEN Return("ok", CtxPush(math.ctx,
                  [kind |-> "frame", size |-> math.ctx.size,
                   styles |-> CtxStyles(math.ctx)]))
         ELSE Return("err", math.ctx)
    /\ UNCHANGED <<heap, src, status, last, run>>

\* lines 442-446: prev_map and prev_size are taken, the context is styled
\* and layout_math is called on the element
LayoutStyledEnter ==
    /\ math.stack # <<>> /\ Top.pc = "call"
    /\ Top.content.kind = "styled"
    /\ ~OtherFont(math.ctx, Top.content.styles)
    /\ CallChild([Top EXCEPT !.pc = "child", !.prev_map = math.ctx.local,
                             !.prev_size = math.ctx.size],
                 Top.content.elem,
                 StyledEnter(math.ctx, Top.content.styles))
    /\ UNCHANGED <<heap, src, status, last, run>>

\* lines 446-449: `?` returns the error of the element; else size and local
\* map are put back
LayoutStyledExit ==
    /\ math.stack # <<>> /\ Top.pc = "child" /\ math.ret # "none"
    /\ Top.content.kind = "styled"
    /\ IF math.ret = "ok"
       THEN Return("ok", StyledExit(math.ctx, Top.prev_map, Top.prev_size))
       ELSE Return("err", math.ctx)
    /\ UNCHANGED <<heap, src, status, last, run>>

\* lines 422-428: layout_math is called on the first child of a sequence
LayoutSequenceEnter ==
    /\ math.stack # <<>> /\ Top.pc = "call"
    /\ Top.content.kind = "sequence"
    /\ CallChild([Top EXCEPT !.pc = "child", !.child = 1],
                 Top.content.children[1], math.ctx)
    /\ UNCHANGED <<heap, src, status, last, run>>

\* lines 427-430: `?` returns the error of a child; else the next child is
\* laid out, and Ok(()) is returned after the last
LayoutSequenceNext ==
    /\ math.stack # <<>> /\ Top.pc = "child" /\ math.ret # "none"
    /\ Top.content.kind = "sequence"
    /\ IF math.ret = "err" THEN Return("err", math.ctx)
       ELSE IF Top.child < Len(Top.content.children)
       THEN CallChild([Top EXCEPT !.child = @ + 1],
                      Top.content.children[Top.child + 1], math.ctx)
       ELSE Return("ok", math.ctx)
    /\ UNCHANGED <<heap, src, status, last, run>>

NextMath ==
    \/ LayoutText
    \/ LayoutStyledOtherFont
    \/ LayoutStyledEnter
    \/ LayoutStyledExit
    \/ LayoutSequenceEnter
    \/ LayoutSequenceNext

SpecMath == InitMath /\ [][NextMath]_vars

(***************************************************************************)
(* Helpers of the properties.                                              *)
(***************************************************************************)
AliveNext(h) == src'[h] # NoSlot
ViewNext(h) == heap'[src'[h]]

\* the UTF-8 encoding of a text, one entry <<scalar, k>> for its k-th byte
RECURSIVE Utf8(_)
Utf8(t) ==
    IF t = <<>> THEN <<>>
    ELSE [k \in 1..char_len_utf8(Head(t)) |-> <<Head(t), k>>] \o Utf8(Tail(t))

\* s..e lies within t, on character boundaries
ValidRange(t, s, e) ==
    /\ s <= e /\ e <= Len(Utf8(t))
    /\ \E i, j \in 0..Len(t) : Len(Utf8(SubSeq(t, 1, i))) = s
                                /\ Len(Utf8(SubSeq(t, 1, j))) = e

\* the handles that are alive
Live == {h \in Handles : Alive(h)}

\* the index values the position queries are asked: every byte or UTF-16
\* offset up to one past the end, and the largest index there is
Indices(r) == 0..(ByteLen(r.text) + 1) \cup {UsizeMax}

\* the byte offsets of r's text that lie on a character boundary
Boundaries(r) == {b \in 0..ByteLen(r.text) : IsCharBoundary(r.text, b)}

Builds == BOOLEAN

(***************************************************************************)
(* C1 .. C10                                                               *)
(***************************************************************************)

\* C1: after an in-bounds edit(range, with) turning text T into T', the line
\* table is exactly the table a from-scratch build over T' produces.
C1_EditEqualsRebuild ==
    (last.op = "edit" /\ status = "ok")
        => View(last.h).lines = lines(View(last.h).text)

\* C2: a mutation (edit or replace) through one handle leaves the text, line
\* table and tree seen through every other handle exactly as they were,
\* whether or not the two shared one Repr before and whether or not the
\* mutation ran to its end.
C2_CopyOnWriteIsolation ==
    [][\A h \in Handles :
         (last'.op \in {"edit", "replace"} /\ last'.h = h)
           => \A g \in Handles \ {h} :
                Alive(g) => (AliveNext(g) /\ ViewNext(g) = View(g))]_vars

\* C2 witness: B, made as a clone of A, has been edited and now holds another
\* text than A, in a Repr of its own.
C2_Witness ==
    /\ status = "ok" /\ last.op = "edit" /\ last.h = "B"
    /\ Alive("A") /\ Alive("B") /\ src["A"] # src["B"]
    /\ View("A").text # View("B").text

\* C3: record 0 of the line table is {0, 0}, byte offsets strictly increase
\* and UTF-16 offsets never decrease.
C3_LineTableShape ==
    \A h \in Live :
        LET ls == View(h).lines IN
        /\ Len(ls) >= 1
        /\ ls[1] = Line(0, 0)
        /\ \A i \in 1..(Len(ls) - 1) :
             /\ ls[i].byte_idx < ls[i + 1].byte_idx
             /\ ls[i].utf16_idx <= ls[i + 1].utf16_idx

\* the i - 1 of a failed binary search underflows
Underflows(keys, k) ==
    LET bs == binary_search_by_key(keys, k) IN ~bs.ok /\ bs.idx = 0

\* C4: no position query panics, whatever index it is asked and whatever the
\* build; in particular the i - 1 after a failed binary search never
\* underflows.
C4_QueriesNeverPanic ==
    \A h \in Live : \A oc \in Builds : \A i \in Indices(View(h)) :
        /\ byte_to_line(View(h), i, oc) # Panic
        /\ byte_to_utf16(View(h), i, oc) # Panic
        /\ byte_to_column(View(h), i, oc) # Panic
        /\ utf16_to_byte(View(h), i, oc) # Panic
        /\ line_to_byte(View(h), i) # Panic
        /\ line_to_range(View(h), i).tag # "Panic"
        /\ \A c \in Indices(View(h)) :
             line_column_to_byte(View(h), i, c) # Panic
        /\ i <= ByteLen(View(h).text) => ~Underflows(ByteKeys(View(h)), i)
        /\ ~Underflows(Utf16Keys(View(h)), i)

\* C5: for every text T and every in-bounds range on character boundaries,
\* after edit(range, with) the text is T[..start] ++ with ++ T[end..] and
\* len_bytes() is len(T) - (end - start) + len(with).
C5_EditSplices ==
    [][\A h \in Handles : (last'.op = "edit" /\ last'.h = h) =>
         \A s, e \in EditOffsets(h) : ValidRange(View(h).text, s, e) =>
           \A w \in Inputs : \A patched \in BOOLEAN :
             Edit(h, s, e, w, patched)
             => /\ status' = "ok"
                /\ Utf8(ViewNext(h).text)
                     = SubSeq(Utf8(View(h).text), 1, s) \o Utf8(w)
                       \o SubSeq(Utf8(View(h).text), e + 1, Len(Utf8(View(h).text)))
                /\ len_bytes(ViewNext(h))
                     = len_bytes(View(h)) - (e - s) + Len(Utf8(w))]_vars

\* C6: an edit whose range is out of bounds (start or end beyond the text,
\* or start beyond end) panics and leaves the text, line table and tree of
\* every handle as they were.
C6_OutOfBoundsEditAborts ==
    [][(last'.op = "edit" /\ last'.oob)
         => /\ status' = "panicked"
            /\ \A g \in Live : AliveNext(g) /\ ViewNext(g) = View(g)]_vars

\* C6 witness: an out-of-bounds edit of B, which shared A's Repr, has
\* panicked inside replace_range, after Arc::make_mut gave B its own copy.
C6_Witness ==
    /\ status = "panicked" /\ last.op = "edit" /\ last.oob /\ last.h = "B"
    /\ Alive("A") /\ src["A"] # src["B"]
    /\ View("A") = View("B")
    /\ View("A").text # <<>>

\* the positions that follow a line terminator of t: a '\n', a '\r' that no
\* '\n' follows, or a "\r\n" pair
BreaksAfter(t) ==
    {Len(Utf8(SubSeq(t, 1, i))) : i \in
        {j \in 1..Len(t) : \/ t[j] = LF
                           \/ t[j] = CR /\ (j = Len(t) \/ t[j + 1] # LF)}}

\* the number of lines of t: one more than it has terminators
NumberOfLines(t) ==
    1 + Cardinality({j \in 1..Len(t) :
                       \/ t[j] = LF /\ (j = 1 \/ t[j - 1] # CR)
                       \/ t[j] = CR})

\* C7: a from-scratch build yields the record {0, 0} first (also for the
\* empty text), then exactly one record at each position that follows a
\* '\n', a '\r' no '\n' follows, or a "\r\n" pair, in increasing order; no
\* record lies between the bytes of a "\r\n" pair, and there are as many
\* records as the text has lines.
C7_BuildOneRecordPerLine ==
    LET t == View("A").text
        ls == View("A").lines
    IN  /\ Len(ls) >= 1 /\ ls[1] = Line(0, 0)
        /\ {ls[i].byte_idx : i \in 1..Len(ls)} = {0} \cup BreaksAfter(t)
        /\ \A i \in 1..(Len(ls) - 1) : ls[i].byte_idx < ls[i + 1].byte_idx
        /\ \A j \in 1..(Len(t) - 1) :
             (t[j] = CR /\ t[j + 1] = LF)
                => \A i \in 1..Len(ls) : ls[i].byte_idx # Len(Utf8(SubSeq(t, 1, j)))
        /\ Len(ls) = NumberOfLines(t)

\* C7 witness: a text built from scratch that holds a "\r\n" pair, then a
\* lone '\r', then a last line without terminator: three lines.
C7_Witness ==
    LET t == View("A").text IN
    /\ last.op = "replace"
    /\ Len(t) = 4 /\ t[1] = CR /\ t[2] = LF /\ t[3] = CR /\ ~is_newline(t[4])
    /\ Len(View("A").lines) = 3

\* C8: for every byte offset b on a character boundary,
\* utf16_to_byte(byte_to_utf16(b)) = b.
C8_Utf16RoundTrip ==
    \A h \in Live : \A oc \in Builds : \A b \in Boundaries(View(h)) :
        LET u == byte_to_utf16(View(h), b, oc) IN
        /\ IsSome(u)
        /\ utf16_to_byte(View(h), u.val, oc) = Some(b)

\* C9: for every byte offset b on a character boundary,
\* line_column_to_byte(byte_to_line(b), byte_to_column(b)) = b.
C9_LineColumnRoundTrip ==
    \A h \in Live : \A oc \in Builds : \A b \in Boundaries(View(h)) :
        LET l == byte_to_line(View(h), b, oc)
            c == byte_to_column(View(h), b, oc)
        IN  /\ IsSome(l)
            /\ IsSome(c)
            /\ line_column_to_byte(View(h), l.val, c.val) = Some(b)

\* C10: byte_to_line(b) is the index of the last record whose byte offset is
\* at most b, for every b up to the text length, and absent for every b
\* beyond it.
C10_ByteToLine ==
    \A h \in Live : \A oc \in Builds : \A b \in Indices(View(h)) :
        LET r == View(h)
            below == {i \in 1..Len(r.lines) : r.lines[i].byte_idx <= b}
        IN  IF b <= ByteLen(r.text)
            THEN /\ below # {}
                 /\ byte_to_line(r, b, oc)
                      = Some((CHOOSE i \in below : \A j \in below : j <= i) - 1)
            ELSE byte_to_line(r, b, oc) = None

(***************************************************************************)
(* C11 .. C20                                                              *)
(***************************************************************************)

\* the UTF-16 offsets of t that lie on a character boundary
Utf16Boundaries(t) == {Utf16Of(t, i) : i \in 0..Len(t)}

\* C11: utf16_to_byte(u) is the text length when u is the UTF-16 length of
\* the text, and absent when u exceeds that length or falls between the two
\* code units of a surrogate pair, whatever follows the pair.
C11_Utf16ToByteAbsence ==
    \A h \in Live : \A oc \in Builds :
        LET r == View(h)
            total == StrLenUtf16(r.text)
        IN  /\ utf16_to_byte(r, total, oc) = Some(ByteLen(r.text))
            /\ \A u \in 0..(total + 1) :
                 (u > total \/ u \notin Utf16Boundaries(r.text))
                    => utf16_to_byte(r, u, oc) = None

\* the number of scalars of line line_idx, terminator included
LineLength(r, line_idx) ==
    LET range == line_to_range(r, line_idx).val IN
    CharsBefore(r.text, range[2]) - CharsBefore(r.text, range[1])

\* C12: line_column_to_byte(line, column) is absent when the line, with its
\* terminator, holds fewer than column scalars and when line is no line
\* index; for such a column it never yields an offset at or beyond the start
\* of the next line.
C12_LineColumnAbsence ==
    \A h \in Live :
        LET r == View(h) IN
        \A l \in 0..(len_lines(r) + 1) : \A c \in 0..(Len(r.text) + 1) :
            IF l >= len_lines(r) THEN line_column_to_byte(r, l, c) = None
            ELSE c > LineLength(r, l) => line_column_to_byte(r, l, c) = None

\* C13: whatever edits produced a snapshot with identity i, after replace(t)
\* its identity, text, line table and tree are those of new(i, t).
C13_ReplaceEqualsNew ==
    [][\A h \in Handles : (last'.op = "replace" /\ last'.h = h) =>
         \A t \in Inputs :
           Replace(h, t) => ViewNext(h) = SourceNew(SourceId(View(h)), t)]_vars

\* C13 witness: a source that was synthesized has been replaced by a text
\* that is not empty and now holds the numbered tree new would give it.
C13_Witness ==
    /\ status = "ok" /\ last.op = "replace"
    /\ SourceId(View(last.h)) = DetachedId
    /\ View(last.h).text # <<>>
    /\ View(last.h).root.spans = "numbered"

\* C14: no edit and no replace changes the identity of the snapshot it is
\* called on: id() keeps returning the identity given at construction.
C14_IdentityPreserved ==
    [][\A h \in Handles :
         (Alive(h) /\ last'.op \in {"edit", "replace"} /\ last'.h = h)
            => AliveNext(h) /\ SourceId(ViewNext(h)) = SourceId(View(h))]_vars

\* C14 witness: a source made by new with a file id has been edited, its
\* tree patched by the reparser, and still has that id.
C14_Witness ==
    /\ status = "ok" /\ last.op = "edit"
    /\ SourceId(View(last.h)) \in FileIds
    /\ View(last.h).root.spans = "patched"
    /\ View(last.h).text # <<>>

\* the edit in progress was given a range within the text it found, on
\* character boundaries
RunInBounds == ValidRange(run.prev.text, run.replace[1], run.replace[2])

\* the reparser has been called at most once, and not before the last
\* statement of edit; when edit returns it has been called once, on the root
\* the edit found, with the text and the line table the edit leaves, the
\* range and the byte length of the replacement, and edit returns what it
\* reported
ReparsedOnceAtTheEnd ==
    /\ Len(run.calls) <= 1
    /\ run.calls # <<>> => run.pc = "returned"
    /\ run.pc = "returned" =>
         LET c == run.calls[1]
             old == Utf8(run.prev.text)
         IN  /\ Len(run.calls) = 1
             /\ c.args.root = run.prev.root
             /\ c.args.text = View("A").text
             /\ Utf8(c.args.text)
                  = SubSeq(old, 1, run.replace[1]) \o Utf8(run.with)
                    \o SubSeq(old, run.replace[2] + 1, Len(old))
             /\ c.lines = View("A").lines
             /\ c.args.replaced = run.replace
             /\ c.args.replacement_len = Len(Utf8(run.with))
             /\ run.ret = Some(c.reported)

\* C15: every edit calls the reparser exactly once, after the text and the
\* line table are updated, with the previous root, the new text, the
\* replaced range and the byte length of the replacement, and returns the
\* range the reparser reports; no edit of a range within the text ends
\* without that call.
C15_ReparserProtocol ==
    /\ ReparsedOnceAtTheEnd
    /\ run.pc = "panicked" => ~RunInBounds

\* C16: when the reparser could not patch the tree, the tree after the edit
\* is the full parse of the new text and edit returns 0..len(new text).
C16_FallbackIsFullParse ==
    (run.pc = "returned" /\ ~run.calls[1].patched)
        => /\ View("A").root
                = numberize(parse(View("A").text), SourceId(View("A")))
           /\ run.ret = Some(<<0, len_bytes(View("A"))>>)

\* C16 witness: an edit with a replacement that is not empty, made on a
\* source whose tree an earlier edit had patched, returns after the reparser
\* fell back to a full parse.
C16_Witness ==
    /\ run.pc = "returned" /\ ~run.calls[1].patched
    /\ run.with # <<>>
    /\ run.prev.root.spans = "patched"
    /\ View("A").root.spans = "numbered"

\* C20: when the text kept before range.start ends with '\r' and the
\* replacement starts with '\n', the only record the pop takes from the
\* truncated table is one whose byte offset is range.start; every record
\* below range.start, record 0 included, stays where it was.
C20_AdjoiningPopFrame ==
    [][(/\ run.pc = "adjoin" /\ run'.pc = "extend"
        /\ Adjoining(View("A").text, run.replace[1], run.with))
         => \A i \in 1..Len(View("A").lines) :
              \/ View("A").lines[i].byte_idx = run.replace[1]
              \/ /\ i <= Len(ViewNext("A").lines)
                 /\ ViewNext("A").lines[i] = View("A").lines[i]]_vars

\* C17: line_to_range(i) runs from record i's byte offset to record i+1's,
\* or to the text length for the last line; the ranges of consecutive lines
\* are adjacent, only the last may be empty, and together they cover
\* 0..len_bytes(); beyond the last line line_to_byte and line_to_range are
\* absent.
C17_LineRanges ==
    \A h \in Live :
        LET r == View(h)
            n == len_lines(r)
            range(i) == line_to_range(r, i)
        IN  /\ n >= 1
            /\ \A i \in 0..(n - 1) :
                 /\ line_to_byte(r, i) = Some(r.lines[i + 1].byte_idx)
                 /\ range(i) = Some(<<r.lines[i + 1].byte_idx,
                                      IF i + 1 < n THEN r.lines[i + 2].byte_idx
                                      ELSE len_bytes(r)>>)
                 /\ i + 1 < n => /\ range(i).val[1] < range(i).val[2]
                                 /\ range(i).val[2] = range(i + 1).val[1]
                 /\ range(i).val[1] <= range(i).val[2]
            /\ range(0).val[1] = 0
            /\ range(n - 1).val[2] = len_bytes(r)
            /\ \A i \in {n, n + 1, UsizeMax} :
                 line_to_byte(r, i) = None /\ range(i) = None

\* the scalars of t that start at or after byte offset a and before b
ScalarsBetween(t, a, b) ==
    {i \in 1..Len(t) : a <= Len(Utf8(SubSeq(t, 1, i - 1)))
                       /\ Len(Utf8(SubSeq(t, 1, i - 1))) < b}

\* C18: for every character boundary b of the text, byte_to_column(b) is the
\* number of scalars between the start of the line byte_to_line(b) names and
\* b; it is absent when b lies beyond the text or inside a scalar.
C18_ByteToColumn ==
    \A h \in Live : \A oc \in Builds : \A b \in Indices(View(h)) :
        LET r == View(h)
            l == byte_to_line(r, b, oc)
        IN  IF b \in Boundaries(r)
            THEN /\ IsSome(l) /\ l.val < len_lines(r)
                 /\ byte_to_column(r, b, oc)
                      = Some(Cardinality(ScalarsBetween(
                                 r.text, r.lines[l.val + 1].byte_idx, b)))
            ELSE byte_to_column(r, b, oc) = None

\* what SyntaxNode::errors may find in a tree: nothing, or error nodes
ErrorLists == {<<>>, <<"error">>}

\* C19: new(identity, text) returns a snapshot for every text, the empty one
\* included, and does not panic; the snapshot holds the text, its line
\* table and the numbered tree, and when the tree holds error nodes ast()
\* returns them as an error while root() still returns the tree.
C19_ConstructionNeverFails ==
    last.op = "new" =>
        /\ status = "ok"
        /\ Alive("A")
        /\ LET r == View("A") IN
             /\ SourceId(r) \in FileIds
             /\ r.lines # <<>> /\ r.lines[1] = Line(0, 0)
             /\ len_bytes(r) = Len(Utf8(r.text))
             /\ SourceRoot(r).text = r.text
             /\ SourceRoot(r).spans = "numbered"
             /\ SourceRoot(r).id = SourceId(r)
             /\ \A errors \in ErrorLists :
                  ast(r, errors) = IF errors = <<>> THEN Ok(SourceRoot(r))
                                   ELSE Err(errors)

\* C19 witness: new was given the empty text and returned a snapshot of no
\* bytes and one line.
C19_Witness ==
    /\ last.op = "new" /\ status = "ok"
    /\ View("A").text = <<>>
    /\ len_lines(View("A")) = 1

(***************************************************************************)
(* C21 .. C23                                                              *)
(***************************************************************************)

\* the UTF-16 encoding of a text, one entry <<scalar, k>> for its k-th unit:
\* one unit for a scalar of the basic plane, two for any other
RECURSIVE Utf16(_)
Utf16(t) ==
    IF t = <<>> THEN <<>>
    ELSE [k \in 1..(IF Head(t) >= 65536 THEN 2 ELSE 1) |-> <<Head(t), k>>]
           \o Utf16(Tail(t))

\* the UTF-16 units of t before byte offset b, a character boundary of t: -1
\* when b is none
Utf16UnitsBefore(t, b) ==
    IF \E i \in 0..Len(t) : Len(Utf8(SubSeq(t, 1, i))) = b
    THEN Len(Utf16(SubSeq(t, 1,
            CHOOSE i \in 0..Len(t) : Len(Utf8(SubSeq(t, 1, i))) = b)))
    ELSE -1

\* no call of edit is between its first and its last statement
BetweenCalls == run.pc \in {"idle", "returned", "panicked"}

\* C21: after new, replace and any sequence of edits, every record's UTF-16
\* offset is the number of UTF-16 units of the text before its byte offset;
\* the offset an edit captures for range.start before it changes the text,
\* from which its re-scan counts on, is the number of units before
\* range.start.
C21_Utf16OffsetsCorrect ==
    /\ BetweenCalls =>
         \A i \in 1..len_lines(View("A")) :
            View("A").lines[i].utf16_idx
               = Utf16UnitsBefore(View("A").text, View("A").lines[i].byte_idx)
    /\ run.pc \in {"splice", "truncate", "adjoin", "extend", "reparse", "returned"}
         => run.start_utf16 = Utf16UnitsBefore(run.prev.text, run.replace[1])

\* C21 witness: an edit that started after a scalar of two UTF-16 units has
\* returned and left a record after that scalar.
C21_Witness ==
    /\ run.pc = "returned"
    /\ run.start_utf16 < run.replace[1] - 1
    /\ \E i \in 1..len_lines(View("A")) :
         /\ View("A").lines[i].byte_idx > run.replace[1]
         /\ View("A").lines[i].utf16_idx < View("A").lines[i].byte_idx - 1

\* C22: after new, replace and any sequence of edits, also those that pop a
\* record where '\r' and '\n' come to adjoin, the line table holds a record,
\* and len_utf16() is the UTF-16 length of the text.
C22_TableNeverEmpty ==
    BetweenCalls =>
        /\ len_lines(View("A")) >= 1
        /\ len_utf16(View("A")) = Some(Len(Utf16(View("A").text)))

\* C22 witness: an edit whose adjoining branch popped the only record kept
\* has returned.
C22_Witness ==
    /\ run.pc = "returned"
    /\ run.line = 0
    /\ Adjoining(View("A").text, run.replace[1], run.with)
    /\ len_lines(View("A")) >= 1

\* the value of the strongest size entry of a sequence of style entries
StrongestSize(styles) ==
    LET at == {i \in 1..Len(styles) : styles[i].prop = "size"} IN
    IF at = {} THEN "default"
    ELSE styles[CHOOSE i \in at : \A j \in at : j <= i].val

\* C23: when layout_math on styled content returns Ok, the local style map
\* and the size of the context are what they were when it was called,
\* however deep the styled content is nested; the element is laid out with
\* the styled map on top of the previous local map and with the size
\* resolved from the styles so made.
C23_StyledRestoresContext ==
    [][(math.stack # <<>> /\ Top.content.kind = "styled") =>
         /\ (Len(math'.stack) < Len(math.stack) /\ math'.ret = "ok")
              => /\ math'.ctx.local = Top.at_call.local
                 /\ math'.ctx.size = Top.at_call.size
         /\ Len(math'.stack) > Len(math.stack)
              => LET elem == math'.stack[Len(math'.stack)] IN
                 /\ elem.content = Top.content.elem
                 /\ math'.ctx.local = Top.at_call.local \o Top.content.styles
                 /\ elem.at_call.local = math'.ctx.local
                 /\ math'.ctx.size
                      = StrongestSize(math.ctx.outer \o Top.at_call.local
                                        \o Top.content.styles)
                 /\ elem.at_call.size = math'.ctx.size]_vars

\* C23 witness: styled content nested in styled content, each with a size of
\* its own, has been laid out: the text was laid out at the inner size, and
\* the context is back at no local styles and the outer size.
C23_Witness ==
    /\ math.stack = <<>> /\ math.ret = "ok"
    /\ math.root.kind = "styled" /\ math.root.elem.kind = "styled"
    /\ math.root.elem.elem.kind = "text"
    /\ size_in(math.root.styles) = "12pt"
    /\ size_in(math.root.elem.styles) = "14pt"
    /\ Len(math.ctx.fragments) = 1
    /\ math.ctx.fragments[1].size = "14pt"
    /\ math.ctx.local = <<>> /\ math.ctx.size = "10pt"

====
